---------------------------- MODULE Spec2Model ----------------------------
(***************************************************************************)
(* Model of the recordings module of the conferencing backend:             *)
(*   - the recording.started webhook (RecordingsController.recordingStarted*)
(*     -> RecordingsService.handleRecordingStartedEvent), which writes the *)
(*     relational datastore through Prisma in two awaited steps;           *)
(*   - the Recording CRUD operations of RecordingsService, which work on   *)
(*     the in-process array `recordings`.                                  *)
(* Strings that the code converts (Number(...), new Date(...)) are         *)
(* sequences of one-character strings, so that the conversions are         *)
(* computed and not assumed.                                               *)
(***************************************************************************)
EXTENDS Integers, Sequences, FiniteSets, TLC

VARIABLES
    now,          \* wall clock read by new Date() / Date.now() / @updatedAt
    Conference,   \* table Conference: the set of existing ids
    Recording,    \* table Recording: a set of rows
    Session,      \* table Session: id -> row
    Participant,  \* table Participant: a set of rows
    recordingSeq, \* the BIGSERIAL sequence behind Recording.id
    deleted,      \* the last DELETE statement and how the datastore answered it
    pc,           \* per webhook call: position in handleRecordingStartedEvent
    payload,      \* per webhook call: the data object of the request body
    recording,    \* per webhook call: id of the row `recording` (0: none yet)
    caught,       \* per webhook call: the error the catch block logged
    response,     \* per webhook call: what the HTTP caller receives
    recordings,   \* RecordingsService.recordings, the in-process array
    crud          \* the last CRUD request and what it answered

vars == <<now, Conference, Recording, Session, Participant, recordingSeq, deleted,
          pc, payload, recording, caught, response, recordings, crud>>

dbVars   == <<Conference, Recording, Session, Participant, recordingSeq, deleted>>
callVars == <<pc, payload, recording, caught, response>>
crudVars == <<recordings, crud>>

(***************************************************************************)
(* Bounds of the model.                                                    *)
(***************************************************************************)
MaxCalls == 2     \* webhook deliveries (each call slot is used once)
MaxTime == 1      \* the wall clock runs over 0..MaxTime

Calls == 1..MaxCalls

(***************************************************************************)
(* JavaScript conversions.                                                 *)
(***************************************************************************)
DigitChars == {"0", "1", "2", "3", "4", "5", "6", "7", "8", "9"}

DigitVal(ch) ==
    CASE ch = "0" -> 0 [] ch = "1" -> 1 [] ch = "2" -> 2 [] ch = "3" -> 3
      [] ch = "4" -> 4 [] ch = "5" -> 5 [] ch = "6" -> 6 [] ch = "7" -> 7
      [] ch = "8" -> 8 [] ch = "9" -> 9

RECURSIVE DecimalValue(_)
DecimalValue(s) ==
    IF s = <<>> THEN 0
    ELSE 10 * DecimalValue(SubSeq(s, 1, Len(s) - 1)) + DigitVal(s[Len(s)])

RECURSIVE TrimLeft(_)
TrimLeft(s) ==
    IF s # <<>> /\ Head(s) = " " THEN TrimLeft(Tail(s)) ELSE s

RECURSIVE TrimRight(_)
TrimRight(s) ==
    IF s # <<>> /\ s[Len(s)] = " " THEN TrimRight(SubSeq(s, 1, Len(s) - 1)) ELSE s

\* A JavaScript number is [isNaN |-> TRUE] or [isNaN |-> FALSE, value |-> n];
\* a JavaScript Date is [valid |-> FALSE] or [valid |-> TRUE, time |-> t].
NaN == [isNaN |-> TRUE]
InvalidDate == [valid |-> FALSE]

\* Number(str) of JavaScript on the strings of the model: white space is
\* stripped, the empty string is 0, a run of digits is its decimal value and
\* anything else is NaN. It does not throw.
Number(s) ==
    LET t == TrimRight(TrimLeft(s)) IN
    IF t = <<>> THEN [isNaN |-> FALSE, value |-> 0]
    ELSE IF \A i \in 1..Len(t) : t[i] \in DigitChars
        THEN [isNaN |-> FALSE, value |-> DecimalValue(t)]
    ELSE NaN

\* new Date(str) on the time strings of the model. A time string is an hour
\* followed by "Z" (UTC) or by "+" and an offset in hours; the Date is the
\* UTC instant. Anything else is an Invalid Date. It does not throw.
NewDate(s) ==
    IF Len(s) = 2 /\ s[1] \in DigitChars /\ s[2] = "Z"
        THEN [valid |-> TRUE, time |-> DigitVal(s[1])]
    ELSE IF Len(s) = 3 /\ s[1] \in DigitChars /\ s[2] = "+" /\ s[3] \in DigitChars
        THEN [valid |-> TRUE, time |-> DigitVal(s[1]) - DigitVal(s[3])]
    ELSE InvalidDate

(***************************************************************************)
(* The webhook payloads the model delivers (WebhookRecordingStartedDto).   *)
(* The DTO carries no validators, so every string reaches the service.     *)
(***************************************************************************)
\* The strings the model delivers in the converted fields: the value of the
\* base payload first, then the faulty ones (empty, no such row, not a number).
TenantIdStrings     == {<<"7">>, <<>>}
ConferenceIdStrings == {<<"1">>, <<"9">>, <<"x">>}
SessionIdStrings    == {<<"1">>, <<"9">>, <<"x">>}
StartTimeStrings    == {<<"3", "Z">>, <<"x">>}

\* The payload of the documented scenario, in the model's strings: every id
\* is numeric and names an existing row, the start_time parses.  The record
\* is the `data` object, with the `event` of the envelope next to its fields.
BasePayload ==
    [event          |-> "recording.started",
     host_user_id   |-> "h1",
     host_user_name |-> "Ann",
     tenant_name    |-> "Acme",
     recording_id  |-> "r1",
     conference_id |-> <<"1">>,
     tenant_id     |-> <<"7">>,
     session_id    |-> <<"1">>,
     recording_url |-> "u1",
     title         |-> "Standup",
     start_time    |-> <<"3", "Z">>]

\* The delivered payloads: the base payload with one of its converted fields
\* replaced (by itself too), and two more payloads without fault, which carry
\* another URL and a start_time with an offset, for either Session.
Payloads ==
    {[BasePayload EXCEPT !.conference_id = s] : s \in ConferenceIdStrings}
    \cup {[BasePayload EXCEPT !.tenant_id = s] : s \in TenantIdStrings}
    \cup {[BasePayload EXCEPT !.session_id = s] : s \in SessionIdStrings}
    \cup {[BasePayload EXCEPT !.start_time = s] : s \in StartTimeStrings}
    \cup {[BasePayload EXCEPT !.session_id = s, !.recording_url = "u2",
                              !.start_time = <<"5", "+", "1">>] :
            s \in {<<"1">>, <<"2">>}}

NoPayload  == [none |-> TRUE]
NoResponse == [none |-> TRUE]
NoError    == [none |-> TRUE]

(***************************************************************************)
(* What the HTTP caller receives.                                          *)
(***************************************************************************)
\* The object the service returns; @HttpCode(HttpStatus.OK) makes it a 200.
SuccessEnvelope ==
    [statusCode |-> 200,
     body |-> [status |-> "success",
               message |-> "Recording start event received successfully."]]

\* throw new NotFoundException(message): the HttpException of @nestjs/common
\* with status 404, answered as {statusCode, message, error}.
NotFoundException(message) ==
    [statusCode |-> 404,
     body |-> [statusCode |-> 404, message |-> message, error |-> "Not Found"]]

WebhookFailure == NotFoundException("Failed to process recording start event.")

(***************************************************************************)
(* The datastore.                                                          *)
(***************************************************************************)
InitialSession(i) ==
    [id |-> i, conference_id |-> 1, session_name |-> "s", recording_url |-> "u0",
     duration_seconds |-> 60, updated_at |-> 0]

\* Session 2 has a Participant; Conference 2 has no Session and no Recording.
InitialParticipant == [id |-> 1, session_id |-> 2]

NoDelete == [table |-> "none"]

Init ==
    /\ now = 0
    /\ Conference = {1, 2}
    /\ Recording = {}
    /\ Session = [i \in {1, 2} |-> InitialSession(i)]
    /\ Participant = {InitialParticipant}
    /\ recordingSeq = 1
    /\ deleted = NoDelete
    /\ pc = [c \in Calls |-> "idle"]
    /\ payload = [c \in Calls |-> NoPayload]
    /\ recording = [c \in Calls |-> 0]
    /\ caught = [c \in Calls |-> NoError]
    /\ response = [c \in Calls |-> NoResponse]
    /\ recordings = <<>>
    /\ crud = [op |-> "none"]

\* The wall clock is read by new Date(), Date.now() and @updatedAt. `now` is
\* the value of the last read; a read gives that value or a later one.
ClockReads == now..MaxTime

(***************************************************************************)
(* POST /recordings/webhook/recording-started                              *)
(***************************************************************************)
\* The controller hands the body to the service, which destructures it and
\* reaches the first await.
RecordingStarted(c, p) ==
    /\ pc[c] = "idle"
    /\ \A d \in Calls : d < c => pc[d] # "idle"
    /\ pc' = [pc EXCEPT ![c] = "create"]
    /\ payload' = [payload EXCEPT ![c] = p]
    /\ UNCHANGED <<now, dbVars, recording, caught, response, crudVars>>

\* Mutant: created_at takes the wall clock instead of the parsed start_time.
RecordingCreateDataWallClock(p, t) ==
    [title         |-> p.title,
     conference_id |-> Number(p.conference_id),
     tenantId      |-> Number(p.tenant_id),
     file_path     |-> p.recording_url,
     created_at    |-> [valid |-> TRUE, time |-> t],
     updated_at    |-> t]

\* Mutant: the title stored is prefixed with the host's name.
RecordingCreateDataWithHost(p, t) ==
    [title         |-> <<p.host_user_name, p.title>>,
     conference_id |-> Number(p.conference_id),
     tenantId      |-> Number(p.tenant_id),
     file_path     |-> p.recording_url,
     created_at    |-> NewDate(p.start_time),
     updated_at    |-> t]

\* The data object of prisma.recording.create.
RecordingCreateData(p, t) ==
    [title         |-> p.title,
     conference_id |-> Number(p.conference_id),
     tenantId      |-> Number(p.tenant_id),
     file_path     |-> p.recording_url,
     created_at    |-> NewDate(p.start_time),
     updated_at    |-> t]

\* Prisma's argument validation of the create: Int and BigInt fields take no
\* NaN, DateTime fields no Invalid Date.
CreateArgsValid(d) ==
    /\ ~d.conference_id.isNaN
    /\ ~d.tenantId.isNaN
    /\ d.created_at.valid

\* The row the INSERT stores under the id the sequence gave.
RecordingRow(id, d) ==
    [id            |-> id,
     title         |-> d.title,
     conference_id |-> d.conference_id.value,
     tenantId      |-> d.tenantId.value,
     file_path     |-> d.file_path,
     created_at    |-> d.created_at.time,
     updated_at    |-> d.updated_at]

\* Mutant: the insert is skipped when a row with the same file_path exists.
InsertRecordingDeduplicated(table, id, d) ==
    IF \E r \in table : r.file_path = d.file_path
    THEN table
    ELSE table \cup {RecordingRow(id, d)}

\* The INSERT of prisma.recording.create: a new row, whatever rows exist.
InsertRecording(table, id, d) ==
    table \cup {RecordingRow(id, d)}

\* Mutant: Recording.conference_id carries no foreign key.
CreateOutcomeWithoutForeignKey(d, outage) ==
    IF ~CreateArgsValid(d) THEN "validation"
    ELSE IF outage THEN "unavailable"
    ELSE "ok"

\* How prisma.recording.create ends: "ok", or the error it throws.
CreateOutcome(d, outage) ==
    IF ~CreateArgsValid(d) THEN "validation"
    ELSE IF outage THEN "unavailable"
    ELSE IF d.conference_id.value \notin Conference THEN "foreign_key"
    ELSE "ok"

\* Mutant: the catch block logs the cause and answers as if nothing had failed.
CatchSwallows(c, step, kind) ==
    /\ caught' = [caught EXCEPT ![c] = [step |-> step, kind |-> kind]]
    /\ response' = [response EXCEPT ![c] = SuccessEnvelope]
    /\ pc' = [pc EXCEPT ![c] = "done"]

\* The catch block: log the cause, throw the NotFoundException.
Catch(c, step, kind) ==
    /\ caught' = [caught EXCEPT ![c] = [step |-> step, kind |-> kind]]
    /\ response' = [response EXCEPT ![c] = WebhookFailure]
    /\ pc' = [pc EXCEPT ![c] = "done"]

\* await this.prisma.recording.create(...) of call c, were its payload p.
CreateRecordingOf(c, p) ==
    /\ pc[c] = "create"
    /\ \E outage \in BOOLEAN, t \in ClockReads :
         LET d == RecordingCreateData(p, t)
             o == CreateOutcome(d, outage)
         IN  /\ now' = t
             /\ IF o = "ok"
                THEN /\ Recording' = InsertRecording(Recording, recordingSeq, d)
                     /\ recordingSeq' = recordingSeq + 1
                     /\ recording' = [recording EXCEPT ![c] = recordingSeq]
                     /\ pc' = [pc EXCEPT ![c] = "update"]
                     /\ UNCHANGED <<caught, response>>
                ELSE /\ Catch(c, "create", o)
                     \* a rejected INSERT has drawn its id from the sequence
                     /\ recordingSeq' = IF o = "foreign_key" THEN recordingSeq + 1
                                        ELSE recordingSeq
                     /\ UNCHANGED <<Recording, recording>>
    /\ UNCHANGED <<Conference, Session, Participant, deleted, payload, crudVars>>

\* await this.prisma.recording.create(...)
CreateRecording(c) == CreateRecordingOf(c, payload[c])

\* Mutant: the update touches the row and leaves recording_url as it was.
SessionPatchWithoutUrl(row, url, t) ==
    [row EXCEPT !.updated_at = t]

\* Mutant: a recording_url once written is kept, the first delivery wins.
SessionPatchFirstWins(row, url, t) ==
    IF row.recording_url = InitialSession(row.id).recording_url
    THEN [row EXCEPT !.recording_url = url, !.updated_at = t]
    ELSE [row EXCEPT !.updated_at = t]

\* The row prisma.session.update writes: the data of the call, and updated_at
\* by @updatedAt.
SessionPatch(row, url, t) ==
    [row EXCEPT !.recording_url = url, !.updated_at = t]

\* Mutant: a missing Session row is not an error (updateMany instead of update).
UpdateOutcomeIgnoresMissing(id, outage) ==
    IF id.isNaN THEN "validation"
    ELSE IF outage THEN "unavailable"
    ELSE "ok"

\* How prisma.session.update ends: "ok", or the error it throws.
UpdateOutcome(id, outage) ==
    IF id.isNaN THEN "validation"
    ELSE IF outage THEN "unavailable"
    ELSE IF id.value \notin DOMAIN Session THEN "not_found"
    ELSE "ok"

\* await this.prisma.session.update(...) of call c, were its payload p, then
\* log and return the envelope.
UpdateSessionOf(c, p) ==
    /\ pc[c] = "update"
    /\ \E outage \in BOOLEAN, t \in ClockReads :
         LET id == Number(p.session_id)
             o  == UpdateOutcome(id, outage)
         IN  IF o = "ok"
             THEN /\ Session' = [i \in DOMAIN Session |->
                                   IF i = id.value
                                   THEN SessionPatch(Session[i], p.recording_url, t)
                                   ELSE Session[i]]
                  /\ now' = t
                  /\ response' = [response EXCEPT ![c] = SuccessEnvelope]
                  /\ pc' = [pc EXCEPT ![c] = "done"]
                  /\ UNCHANGED caught
             ELSE /\ Catch(c, "update", o)
                  /\ UNCHANGED <<now, Session>>
    /\ UNCHANGED <<Conference, Recording, Participant, recordingSeq, deleted,
                   payload, recording, crudVars>>

\* await this.prisma.session.update(...), then log and return the envelope.
UpdateSession(c) == UpdateSessionOf(c, payload[c])

InFlight(c) == pc[c] \in {"create", "update"}

\* The process dies: every call in flight ends without a response, and the
\* in-process array is gone with the process.
Crash ==
    /\ \E c \in Calls : InFlight(c)
    /\ pc' = [c \in Calls |-> IF InFlight(c) THEN "crashed" ELSE pc[c]]
    /\ recordings' = <<>>
    /\ crud' = [op |-> "none"]
    /\ UNCHANGED <<now, dbVars, payload, recording, caught, response>>

NextWebhook ==
    \/ \E c \in Calls, p \in Payloads : RecordingStarted(c, p)
    \/ \E c \in Calls : CreateRecording(c)
    \/ \E c \in Calls : UpdateSession(c)
    \/ Crash

SpecWebhook == Init /\ [][NextWebhook]_vars

\* Deliveries that race for Session 1: two faultless payloads that differ in
\* recording_url (and start_time).
RivalPayloads ==
    {BasePayload,
     [BasePayload EXCEPT !.recording_url = "u2", !.start_time = <<"5", "+", "1">>]}

NextRivals ==
    \/ \E c \in Calls, p \in RivalPayloads : RecordingStarted(c, p)
    \/ \E c \in Calls : CreateRecording(c)
    \/ \E c \in Calls : UpdateSession(c)
    \/ Crash

SpecRivals == Init /\ [][NextRivals]_vars

\* The fields the handler destructures and never reads, and `event`, which it
\* does not even destructure.
IgnoredFields == {"event", "recording_id", "host_user_id", "host_user_name",
                  "tenant_name"}

\* Base payload with every such field changed and the optional tenant_name
\* left out.
OtherSenderPayload ==
    [f \in DOMAIN BasePayload \ {"tenant_name"} |->
        IF f = "event" THEN "recording.stopped"
        ELSE IF f = "recording_id" THEN "r2"
        ELSE IF f = "host_user_id" THEN "h2"
        ELSE IF f = "host_user_name" THEN "Bob"
        ELSE BasePayload[f]]

IgnoredFieldPayloads == {BasePayload, OtherSenderPayload}

NextIgnored ==
    \/ \E c \in Calls, p \in IgnoredFieldPayloads : RecordingStarted(c, p)
    \/ \E c \in Calls : CreateRecording(c)
    \/ \E c \in Calls : UpdateSession(c)
    \/ Crash

SpecIgnored == Init /\ [][NextIgnored]_vars

(***************************************************************************)
(* Row deletions against the foreign keys of the migration.  All three     *)
(* keys are ON DELETE RESTRICT: a DELETE of a row that is still referenced *)
(* fails and removes nothing.  No code of the service deletes a Recording  *)
(* row of the datastore (remove works on the in-process array).            *)
(***************************************************************************)
\* Rows that reference Conference id: Recording_conference_id_fkey and
\* Session_conference_id_fkey.
ConferenceDependents(id) ==
    \/ \E r \in Recording : r.conference_id = id
    \/ \E i \in DOMAIN Session : Session[i].conference_id = id

\* Rows that reference Session id: Participant_session_id_fkey.
SessionDependents(id) ==
    \E q \in Participant : q.session_id = id

\* Mutant: the keys are ON DELETE SET NULL / NO ACTION deferred, the parent goes.
DeleteOutcomeUnrestricted(referenced) == "ok"

\* How a DELETE of an existing row ends.
DeleteOutcome(referenced) == IF referenced THEN "restrict" ELSE "ok"

DeleteStatement(table, id, o) == [table |-> table, id |-> id, outcome |-> o]

\* DELETE FROM "Conference" WHERE id = id
DeleteConference(id) ==
    /\ id \in Conference
    /\ LET o == DeleteOutcome(ConferenceDependents(id))
       IN  /\ Conference' = IF o = "ok" THEN Conference \ {id} ELSE Conference
           /\ deleted' = DeleteStatement("Conference", id, o)
    /\ UNCHANGED <<now, Recording, Session, Participant, recordingSeq,
                   callVars, crudVars>>

\* DELETE FROM "Session" WHERE id = id
DeleteSession(id) ==
    /\ id \in DOMAIN Session
    /\ LET o == DeleteOutcome(SessionDependents(id))
       IN  /\ Session' = IF o = "ok"
                         THEN [i \in DOMAIN Session \ {id} |-> Session[i]]
                         ELSE Session
           /\ deleted' = DeleteStatement("Session", id, o)
    /\ UNCHANGED <<now, Conference, Recording, Participant, recordingSeq,
                   callVars, crudVars>>

\* DELETE FROM "Participant" WHERE id = id: nothing references a Participant.
DeleteParticipant(id) ==
    /\ \E q \in Participant : q.id = id
    /\ Participant' = {q \in Participant : q.id # id}
    /\ deleted' = DeleteStatement("Participant", id, "ok")
    /\ UNCHANGED <<now, Conference, Recording, Session, recordingSeq,
                   callVars, crudVars>>

\* Deliveries next to the deletions: a faultless payload and one whose
\* conference_id names no Conference.
IntegrityPayloads ==
    {BasePayload, [BasePayload EXCEPT !.conference_id = <<"9">>]}

NextIntegrity ==
    \/ \E c \in Calls, p \in IntegrityPayloads : RecordingStarted(c, p)
    \/ \E c \in Calls : CreateRecording(c)
    \/ \E c \in Calls : UpdateSession(c)
    \/ \E id \in Conference : DeleteConference(id)
    \/ \E id \in DOMAIN Session : DeleteSession(id)
    \/ \E q \in Participant : DeleteParticipant(q.id)

SpecIntegrity == Init /\ [][NextIntegrity]_vars

(***************************************************************************)
(* The Recording CRUD operations on the in-process array.                  *)
(* Rows and DTOs are functions from field names to values; the bodies of   *)
(* POST /recordings and PATCH /recordings/:id are untyped in the           *)
(* controller, so a DTO may carry any of the fields, `id` included.        *)
(***************************************************************************)
MaxRows == 3      \* create is not called on an array of MaxRows rows

PathIds == 0..(MaxTime + 1)      \* the ids of requests: +id of the path
Titles  == {"a", "b"}

EmptyDto == [k \in {} |-> 0]

Dtos ==
    {EmptyDto}
    \cup {[title |-> t] : t \in Titles}
    \cup {[id |-> i] : i \in PathIds}
    \cup {[id |-> i, title |-> t] : i \in PathIds, t \in Titles}

\* { ...a, ...b }: the fields of both, those of b winning.
Spread(a, b) ==
    [k \in DOMAIN a \cup DOMAIN b |-> IF k \in DOMAIN b THEN b[k] ELSE a[k]]

\* The object create builds: { id: Date.now(), ...createRecordingDto }.
NewRecording(t, dto) == Spread([id |-> t], dto)

\* Array.prototype.findIndex on item.id === id, with indices from 1: the
\* first index whose row has the id, or -1.
FindIndex(arr, id) ==
    IF \E i \in 1..Len(arr) : arr[i].id = id
    THEN CHOOSE i \in 1..Len(arr) :
            /\ arr[i].id = id
            /\ \A j \in 1..(i - 1) : arr[j].id # id
    ELSE -1

\* The message of the CRUD not-found error: `Recording with ID ${id} not found.`
NotFoundMessage(id) == <<"Recording with ID ", id, " not found.">>

Returned(v) == [ok |-> TRUE, value |-> v]
Thrown(e)   == [ok |-> FALSE, error |-> e]

\* What findOne(id) answers on the array arr.
FindOneResult(arr, id) ==
    IF FindIndex(arr, id) = -1
    THEN Thrown(NotFoundException(NotFoundMessage(id)))
    ELSE Returned(arr[FindIndex(arr, id)])

\* this.recordings[recordingIndex] = { ...row, ...updateRecordingDto }
UpdatedAt(arr, i, dto) ==
    [j \in 1..Len(arr) |-> IF j = i THEN Spread(arr[j], dto) ELSE arr[j]]

\* this.recordings.splice(recordingIndex, 1)
SplicedAt(arr, i) ==
    SubSeq(arr, 1, i - 1) \o SubSeq(arr, i + 1, Len(arr))

\* POST /recordings
\* Mutant: create also stores the recording through Prisma.
CreateThroughPrisma(dto) ==
    /\ Len(recordings) < MaxRows
    /\ \E t \in ClockReads :
         /\ now' = t
         /\ recordings' = Append(recordings, NewRecording(t, dto))
         /\ Recording' = Recording \cup {NewRecording(t, dto)}
         /\ crud' = [op |-> "create", dto |-> dto,
                     result |-> Returned(NewRecording(t, dto))]
    /\ UNCHANGED <<Conference, Session, Participant, recordingSeq, deleted, callVars>>

Create(dto) ==
    /\ Len(recordings) < MaxRows
    /\ \E t \in ClockReads :
         /\ now' = t
         /\ recordings' = Append(recordings, NewRecording(t, dto))
         /\ crud' = [op |-> "create", dto |-> dto,
                     result |-> Returned(NewRecording(t, dto))]
    /\ UNCHANGED <<dbVars, callVars>>

\* GET /recordings
FindAll ==
    /\ crud' = [op |-> "findAll", result |-> Returned(recordings)]
    /\ UNCHANGED <<now, dbVars, callVars, recordings>>

\* GET /recordings/:id
FindOne(id) ==
    /\ crud' = [op |-> "findOne", id |-> id, result |-> FindOneResult(recordings, id)]
    /\ UNCHANGED <<now, dbVars, callVars, recordings>>

\* PATCH /recordings/:id
Update(id, dto) ==
    /\ LET i == FindIndex(recordings, id) IN
       IF i = -1
       THEN /\ crud' = [op |-> "update", id |-> id, dto |-> dto,
                        result |-> Thrown(NotFoundException(NotFoundMessage(id)))]
            /\ UNCHANGED recordings
       ELSE /\ recordings' = UpdatedAt(recordings, i, dto)
            /\ crud' = [op |-> "update", id |-> id, dto |-> dto,
                        result |-> Returned(UpdatedAt(recordings, i, dto)[i])]
    /\ UNCHANGED <<now, dbVars, callVars>>

\* DELETE /recordings/:id
Remove(id) ==
    /\ LET i == FindIndex(recordings, id) IN
       IF i = -1
       THEN /\ crud' = [op |-> "remove", id |-> id,
                        result |-> Thrown(NotFoundException(NotFoundMessage(id)))]
            /\ UNCHANGED recordings
       ELSE /\ recordings' = SplicedAt(recordings, i)
            /\ crud' = [op |-> "remove", id |-> id,
                        result |-> Returned(recordings[i])]
    /\ UNCHANGED <<now, dbVars, callVars>>

NextCrud ==
    \/ \E dto \in Dtos : Create(dto)
    \/ FindAll
    \/ \E id \in PathIds : FindOne(id)
    \/ \E id \in PathIds, dto \in Dtos : Update(id, dto)
    \/ \E id \in PathIds : Remove(id)

SpecCrud == Init /\ [][NextCrud]_vars

(***************************************************************************)
(* The webhook handler and the CRUD operations of the same service object, *)
(* interleaved: one delivery of one payload, one DTO, and the ids a row can *)
(* have.                                                                   *)
(***************************************************************************)
StoreCalls == {1}
StoreDtos  == {[title |-> "a"]}
StoreIds   == 0..MaxTime

NextStores ==
    \/ \E c \in StoreCalls : RecordingStarted(c, BasePayload)
    \/ \E c \in StoreCalls : CreateRecording(c)
    \/ \E c \in StoreCalls : UpdateSession(c)
    \/ Crash
    \/ \E dto \in StoreDtos : Create(dto)
    \/ FindAll
    \/ \E id \in StoreIds : FindOne(id)
    \/ \E id \in StoreIds, dto \in StoreDtos : Update(id, dto)
    \/ \E id \in StoreIds : Remove(id)

SpecStores == Init /\ [][NextStores]_vars

(***************************************************************************)
(* Vocabulary of the webhook claims.                                       *)
(***************************************************************************)
\* A numeric string in the claims' sense: one digit or more, nothing else.
IsNumericString(s) == s # <<>> /\ \A i \in 1..Len(s) : s[i] \in DigitChars

\* A valid recording.started payload: numeric ids, a start_time that parses,
\* and a conference_id that names an existing Conference.
ValidPayload(p) ==
    /\ IsNumericString(p.tenant_id)
    /\ IsNumericString(p.conference_id)
    /\ IsNumericString(p.session_id)
    /\ NewDate(p.start_time).valid
    /\ DecimalValue(p.conference_id) \in Conference

ReferencesSession(p) ==
    IsNumericString(p.session_id) /\ DecimalValue(p.session_id) \in DOMAIN Session

\* The datastore answered the call's step (it was not unreachable).
Unavailable(c, step) == caught[c] = [step |-> step, kind |-> "unavailable"]

\* The Recording row the call created is (still) in the table.
RowOf(c) == {r \in Recording : r.id = recording[c]}

\* The call's step from "update" to its end happens in this transition.
UpdateStepEnds(c) == pc[c] = "update" /\ pc'[c] = "done"

(***************************************************************************)
(* C1: for every valid recording.started payload, once the handler has     *)
(* passed its create step (the datastore being reachable), the Recording   *)
(* table holds the call's row with file_path = recording_url, created_at = *)
(* the parsed start_time (not the wall clock), title = title, and          *)
(* conference_id, tenantId = the integer values of the payload's strings.  *)
(***************************************************************************)
C1_RecordingRowFromPayload ==
    \A c \in Calls :
        (/\ pc[c] \in {"update", "done"}
         /\ ValidPayload(payload[c])
         /\ ~Unavailable(c, "create"))
        => \E r \in Recording :
             /\ r.id = recording[c]
             /\ r.file_path = payload[c].recording_url
             /\ r.created_at = NewDate(payload[c].start_time).time
             /\ r.title = payload[c].title
             /\ r.conference_id = DecimalValue(payload[c].conference_id)
             /\ r.tenantId = DecimalValue(payload[c].tenant_id)

\* A valid payload with an offset start_time was processed at a wall-clock
\* time other than its start time.
C1_Witness ==
    \E c \in Calls :
        /\ pc[c] = "done"
        /\ ValidPayload(payload[c])
        /\ payload[c].start_time = <<"5", "+", "1">>
        /\ \E r \in Recording :
             r.id = recording[c] /\ r.created_at = 4 /\ r.updated_at # 4

(***************************************************************************)
(* C2: when the update step of a valid payload that references an existing *)
(* Session ends (the datastore being reachable), the call answers success, *)
(* that Session's recording_url is the payload's recording_url, no other   *)
(* Session row has changed, and no other field of that Session except      *)
(* updated_at has changed.                                                 *)
(***************************************************************************)
C2_SessionUrlPatched ==
    [][\A c \in Calls :
        (/\ UpdateStepEnds(c)
         /\ ValidPayload(payload[c])
         /\ ReferencesSession(payload[c])
         /\ caught'[c] = NoError)
        => LET sid == DecimalValue(payload[c].session_id) IN
           /\ response'[c] = SuccessEnvelope
           /\ DOMAIN Session' = DOMAIN Session
           /\ Session'[sid].recording_url = payload[c].recording_url
           /\ \A f \in DOMAIN Session[sid] \ {"recording_url", "updated_at"} :
                Session'[sid][f] = Session[sid][f]
           /\ \A i \in DOMAIN Session \ {sid} : Session'[i] = Session[i]]_vars

\* A call answered success and its Session carries its URL, another Session
\* carries the initial one.
C2_Witness ==
    \E c \in Calls :
        /\ pc[c] = "done"
        /\ response[c] = SuccessEnvelope
        /\ ValidPayload(payload[c])
        /\ Session[DecimalValue(payload[c].session_id)].recording_url
             = payload[c].recording_url
        /\ \E i \in DOMAIN Session : Session[i] = InitialSession(i)

(***************************************************************************)
(* C3: the two writes are not atomic. When the update step ends without    *)
(* success because the payload's session_id references no Session, or the  *)
(* process crashes between the create and the update, the call does not    *)
(* answer success, no Session row is modified, and the Recording row of    *)
(* the create step stays in the table; no step ever removes a created row. *)
(***************************************************************************)
C3_NoRollbackOfRecording ==
    [][\A c \in Calls :
        /\ (/\ UpdateStepEnds(c)
            /\ ~ReferencesSession(payload[c]))
           => /\ response'[c] = WebhookFailure
              /\ Session' = Session
              /\ RowOf(c)' = RowOf(c) /\ RowOf(c) # {}
        /\ (pc[c] = "update" /\ pc'[c] = "crashed")
           => /\ response'[c] = NoResponse
              /\ Session' = Session
              /\ RowOf(c)' = RowOf(c) /\ RowOf(c) # {}
        /\ (recording[c] # 0 => RowOf(c)' = RowOf(c))]_vars

\* A call failed on a missing Session: its row is there, the Sessions are
\* untouched; another call crashed between its two writes, its row is there.
C3_Witness ==
    /\ \E c \in Calls :
        /\ pc[c] = "done"
        /\ caught[c] = [step |-> "update", kind |-> "not_found"]
        /\ RowOf(c) # {}
    /\ \E c \in Calls :
        /\ pc[c] = "crashed"
        /\ recording[c] # 0
        /\ RowOf(c) # {}
    /\ \A i \in DOMAIN Session : Session[i] = InitialSession(i)

(***************************************************************************)
(* C4: the handler is not idempotent. Deliveries of the same payload that  *)
(* passed the create step have each their own Recording row: the rows have *)
(* pairwise distinct ids and equal title, conference_id, tenantId,         *)
(* file_path and created_at, and the table holds as many rows as creates   *)
(* succeeded.                                                              *)
(***************************************************************************)
C4_ReplayDuplicates ==
    /\ \A c1, c2 \in Calls :
        (c1 # c2 /\ payload[c1] = payload[c2] /\ recording[c1] # 0 /\ recording[c2] # 0)
        => \E r1, r2 \in Recording :
             /\ r1.id = recording[c1]
             /\ r2.id = recording[c2]
             /\ r1.id # r2.id
             /\ \A f \in {"title", "conference_id", "tenantId", "file_path", "created_at"} :
                  r1[f] = r2[f]
    /\ Cardinality(Recording) = Cardinality({c \in Calls : recording[c] # 0})

\* The same valid payload was delivered twice and both deliveries succeeded.
C4_Witness ==
    \E c1, c2 \in Calls :
        /\ c1 # c2
        /\ payload[c1] = payload[c2]
        /\ response[c1] = SuccessEnvelope
        /\ response[c2] = SuccessEnvelope
        /\ Cardinality(Recording) >= 2

(***************************************************************************)
(* C5: a call answers 200 with exactly the success envelope if and only if *)
(* both its Recording create and its Session update succeeded; at the      *)
(* moment the success envelope is returned both effects are in the         *)
(* datastore, and every other answer has a status other than 200.          *)
(***************************************************************************)
C5_SuccessIffBothWrites ==
    [][\A c \in Calls :
        /\ (response'[c] = SuccessEnvelope)
             <=> (pc'[c] = "done" /\ recording'[c] # 0 /\ caught'[c] = NoError)
        /\ (response'[c] # NoResponse /\ response'[c] # SuccessEnvelope)
             => response'[c].statusCode # 200
        /\ (response[c] # SuccessEnvelope /\ response'[c] = SuccessEnvelope)
             => LET id == Number(payload[c].session_id) IN
                /\ \E r \in Recording' :
                     r.id = recording'[c] /\ r.file_path = payload[c].recording_url
                /\ ~id.isNaN
                /\ id.value \in DOMAIN Session'
                /\ Session'[id.value].recording_url = payload[c].recording_url]_vars

\* One call answered the success envelope and another one the failure.
C5_Witness ==
    \E c1, c2 \in Calls :
        /\ response[c1] = SuccessEnvelope
        /\ response[c1].statusCode = 200
        /\ response[c2] = WebhookFailure
        /\ recording[c1] # 0

(***************************************************************************)
(* C6: every failure of the webhook path, whatever its kind, is answered   *)
(* with a non-2xx status and the envelope {status: "failure", message:     *)
(* "Failed to process recording start event."}.                            *)
(***************************************************************************)
C6_FailureEnvelope ==
    \A c \in Calls :
        (pc[c] = "done" /\ caught[c] # NoError)
        => /\ response[c].statusCode \notin 200..299
           /\ response[c].body =
                [status |-> "failure",
                 message |-> "Failed to process recording start event."]

\* What the code does keep of C6: all failures get one and the same answer,
\* non-2xx and with the fixed message, whatever the catch block logged.
WebhookFailuresUniform ==
    \A c \in Calls :
        (pc[c] = "done" /\ caught[c] # NoError)
        => /\ response[c] = WebhookFailure
           /\ response[c].statusCode \notin 200..299
           /\ response[c].body.message = "Failed to process recording start event."

(***************************************************************************)
(* C7: a payload in which tenant_id, conference_id or session_id is not a  *)
(* numeric string never gets the success envelope, and when tenant_id or   *)
(* conference_id is the non-numeric one no Recording row is created.       *)
(***************************************************************************)
C7_NonNumericIdRejected ==
    \A c \in Calls :
        pc[c] # "idle" =>
            /\ (\/ ~IsNumericString(payload[c].tenant_id)
                \/ ~IsNumericString(payload[c].conference_id)
                \/ ~IsNumericString(payload[c].session_id))
               => response[c] # SuccessEnvelope
            /\ (\/ ~IsNumericString(payload[c].tenant_id)
                \/ ~IsNumericString(payload[c].conference_id))
               => recording[c] = 0

(***************************************************************************)
(* C8: create(X) returns a row that carries the fields of X and an id, and *)
(* findOne on the returned id, called right after the create, returns that *)
(* same row.                                                               *)
(***************************************************************************)
C8_CreateThenFindOne ==
    crud.op = "create"
    => /\ \A k \in DOMAIN crud.dto : crud.result.value[k] = crud.dto[k]
       /\ "id" \in DOMAIN crud.result.value
       /\ FindOneResult(recordings, crud.result.value.id) = Returned(crud.result.value)

(***************************************************************************)
(* C9: update(id, patch) on an existing id, followed by findOne(id),       *)
(* returns the previous row with the fields of patch replaced and the      *)
(* other fields unchanged; the other rows, the number of rows and their    *)
(* order are unchanged.                                                    *)
(***************************************************************************)
C9_UpdateThenFindOne ==
    [][\A id \in PathIds, dto \in Dtos :
        (Update(id, dto) /\ FindIndex(recordings, id) # -1)
        => LET i == FindIndex(recordings, id) IN
           /\ FindOneResult(recordings', id) = Returned(Spread(recordings[i], dto))
           /\ Len(recordings') = Len(recordings)
           /\ \A j \in 1..Len(recordings) : j # i => recordings'[j] = recordings[j]]_vars

(***************************************************************************)
(* C10: remove(id) on an existing id removes that row and leaves the other *)
(* rows unchanged, and after it findOne(id), update(id, _) and remove(id)  *)
(* fail with the not-found signal "Recording with ID <id> not found.".     *)
(***************************************************************************)
C10_RemoveThenNotFound ==
    [][\A id \in PathIds :
        (Remove(id) /\ FindIndex(recordings, id) # -1)
        => /\ recordings' = SplicedAt(recordings, FindIndex(recordings, id))
           /\ FindIndex(recordings', id) = -1
           /\ FindOneResult(recordings', id)
                = Thrown(NotFoundException(NotFoundMessage(id)))]_vars

\* What the code does keep of C10: a request on an id that no row carries
\* fails with the not-found signal naming the id and leaves the array alone.
CrudNotFoundLeavesArray ==
    [][\A id \in PathIds :
        (/\ FindIndex(recordings, id) = -1
         /\ \/ FindOne(id)
            \/ Remove(id)
            \/ \E dto \in Dtos : Update(id, dto))
        => /\ recordings' = recordings
           /\ crud'.result = Thrown(NotFoundException(NotFoundMessage(id)))
           /\ crud'.result.error.statusCode = 404]_vars

(***************************************************************************)
(* C11.  Referential integrity is an invariant under every sequence of     *)
(* webhook deliveries and row deletions: every Recording and every Session *)
(* references an existing Conference and every Participant an existing     *)
(* Session; a prisma.recording.create whose conference_id names no         *)
(* Conference leaves the Recording table as it was; and no step removes a  *)
(* Conference or a Session that still has dependents.                      *)
(***************************************************************************)
ReferentialIntegrity ==
    /\ \A r \in Recording : r.conference_id \in Conference
    /\ \A i \in DOMAIN Session : Session[i].conference_id \in Conference
    /\ \A q \in Participant : q.session_id \in DOMAIN Session

NamesNoConference(p) ==
    LET n == Number(p.conference_id) IN n.isNaN \/ n.value \notin Conference

C11_ReferentialIntegrity ==
    /\ ReferentialIntegrity
    /\ [][/\ ReferentialIntegrity'
          /\ \A c \in Calls :
               CreateRecording(c) /\ NamesNoConference(payload[c])
               => Recording' = Recording
          /\ \A id \in Conference :
               ConferenceDependents(id) => id \in Conference'
          /\ \A id \in DOMAIN Session :
               SessionDependents(id) => id \in DOMAIN Session']_vars

\* A delivery naming Conference 9 was refused by the foreign key and left no
\* row; the DELETE of Conference 1 was refused, since the Recording of another
\* delivery and Session 2 reference it; Session 1 has been deleted.
C11_Witness ==
    /\ \E c \in Calls :
         /\ payload[c] = [BasePayload EXCEPT !.conference_id = <<"9">>]
         /\ caught[c] = [step |-> "create", kind |-> "foreign_key"]
    /\ \E r \in Recording : r.conference_id = 1
    /\ Cardinality(Recording) = 1
    /\ DOMAIN Session = {2}
    /\ deleted = DeleteStatement("Conference", 1, "restrict")

\* Conference 1 was deleted once its Sessions were gone, and a delivery naming
\* it was then refused by the foreign key.
C11_ParentDeleted ==
    /\ 1 \notin Conference
    /\ \E c \in Calls :
         /\ payload[c] = BasePayload
         /\ caught[c] = [step |-> "create", kind |-> "foreign_key"]
    /\ Recording = {}

\* The row carries an updated_at, and one not earlier than `since`.
Stamped(row, since) ==
    "updated_at" \in DOMAIN row /\ row.updated_at >= since

\* The updated_at a row of the array had, 0 when it had none.
PreviousStamp(row) ==
    IF "updated_at" \in DOMAIN row THEN row.updated_at ELSE 0

(***************************************************************************)
(* C12.  updated_at advances monotonically on every mutation: the webhook  *)
(* Recording create, the webhook Session patch, and the Recording CRUD     *)
(* create and update each leave the row they wrote with an updated_at that *)
(* is not earlier than the row's previous updated_at nor than the time of  *)
(* any earlier mutation.                                                   *)
(***************************************************************************)
C12_UpdatedAtAdvances ==
    [][/\ \A c \in Calls :
            CreateRecording(c)
            => \A r \in Recording' \ Recording : Stamped(r, now)
       /\ \A c \in Calls :
            UpdateSession(c)
            => \A i \in DOMAIN Session :
                 Session'[i] # Session[i]
                 => Stamped(Session'[i], Session[i].updated_at)
                    /\ Stamped(Session'[i], now)
       /\ \A dto \in Dtos :
            Create(dto) => Stamped(recordings'[Len(recordings')], now)
       /\ \A id \in PathIds, dto \in Dtos :
            Update(id, dto) /\ FindIndex(recordings, id) # -1
            => LET i == FindIndex(recordings, id)
               IN  Stamped(recordings'[i], PreviousStamp(recordings[i]))]_vars

\* The webhook half of C12: every row the handler writes gets an updated_at
\* not earlier than the clock read before it, and a patched Session one not
\* earlier than the row had.  The clock of the model never runs backwards.
WebhookUpdatedAtAdvances ==
    [][/\ \A r \in Recording' \ Recording : Stamped(r, now)
       /\ \A i \in DOMAIN Session :
            Session'[i] # Session[i]
            => Stamped(Session'[i], Session[i].updated_at)
               /\ Stamped(Session'[i], now)]_vars

\* Two deliveries with valid payloads for the same existing Session and
\* different recording_url values.
Rivals(c1, c2) ==
    /\ c1 # c2
    /\ payload[c1] # NoPayload /\ payload[c2] # NoPayload
    /\ ValidPayload(payload[c1]) /\ ValidPayload(payload[c2])
    /\ ReferencesSession(payload[c1])
    /\ payload[c1].session_id = payload[c2].session_id
    /\ payload[c1].recording_url # payload[c2].recording_url

Succeeded(c) == pc[c] = "done" /\ response[c] = SuccessEnvelope

(***************************************************************************)
(* C13.  Two concurrent valid deliveries with different recording_url for  *)
(* the same existing Session: under every interleaving of their writes,    *)
(* the Session update that executes sets recording_url to the URL of its   *)
(* own delivery whatever the order of the Recording creates, no step other *)
(* than a Session update changes a Session, and once both calls have       *)
(* returned success each has its own Recording row with its own URL.  So   *)
(* the Session ends with the URL of the update that executed last.         *)
(***************************************************************************)
C13_LastSessionUpdateWins ==
    [][/\ \A c1, c2 \in Calls :
            Rivals(c1, c2)
            => LET sid == DecimalValue(payload[c1].session_id) IN
               /\ (UpdateStepEnds(c1) /\ response'[c1] = SuccessEnvelope
                   => Session'[sid].recording_url = payload[c1].recording_url)
               /\ (Succeeded(c1)' /\ Succeeded(c2)'
                   => \E r1, r2 \in Recording' :
                        /\ r1.id = recording'[c1] /\ r2.id = recording'[c2]
                        /\ r1.id # r2.id
                        /\ r1.file_path = payload[c1].recording_url
                        /\ r2.file_path = payload[c2].recording_url)
       /\ ((\A c \in Calls : ~UpdateStepEnds(c)) => Session' = Session)]_vars

\* Both deliveries succeeded; the first created its Recording first and
\* updated the Session last, so the Session carries the first one's URL.
C13_Witness ==
    \E c1, c2 \in Calls :
        /\ Rivals(c1, c2)
        /\ Succeeded(c1) /\ Succeeded(c2)
        /\ recording[c1] < recording[c2]
        /\ Session[DecimalValue(payload[c1].session_id)].recording_url
             = payload[c1].recording_url
        /\ Cardinality(Recording) = 2

\* A step of handleRecordingStartedEvent: a call moves, and not by a crash.
WebhookStep ==
    \E c \in Calls : pc'[c] # pc[c] /\ pc'[c] # "crashed"

\* A step of one of the CRUD operations: it leaves its answer in crud.
CrudStep ==
    crud'.op # "none" /\ (crud' # crud \/ recordings' # recordings)

(***************************************************************************)
(* C14.  The CRUD operations (create, findAll, findOne, update, remove)    *)
(* read and write only the in-process array and never the datastore, and   *)
(* handleRecordingStartedEvent writes only the datastore and never the     *)
(* array: a CRUD step leaves every table as it was and answers from the    *)
(* array alone, a webhook step leaves the array as it was, and no row of   *)
(* the array is a row of the Recording table, so findAll and findOne never *)
(* return a Recording the webhook created.                                 *)
(***************************************************************************)
C14_DisjointStores ==
    [][/\ WebhookStep => UNCHANGED crudVars
       /\ CrudStep
          => /\ UNCHANGED <<dbVars, callVars>>
             /\ crud'.op = "findAll" => crud'.result = Returned(recordings)
             /\ crud'.op = "findOne"
                => crud'.result = FindOneResult(recordings, crud'.id)
             /\ crud'.result.ok /\ crud'.op # "findAll"
                => crud'.result.value \notin Recording'
       /\ \A i \in 1..Len(recordings') : recordings'[i] \notin Recording']_vars

\* The datastore holds a Recording the webhook created, the array holds a
\* recording create stored, and findAll has answered with the array alone.
C14_Witness ==
    /\ Recording # {}
    /\ \E c \in Calls : Succeeded(c)
    /\ Len(recordings) = 1
    /\ crud.op = "findAll"
    /\ crud.result = Returned(recordings)
    /\ \A r \in Recording : \A i \in 1..Len(recordings) : recordings[i] # r

\* The values the model puts into an ignored field.
IgnoredValues == {"r2", "Bob"}

\* The payloads that differ from p in ignored fields only: each such field
\* takes any of the values, and the optional tenant_name may be absent.
IgnoredVariants(p) ==
    LET kept == DOMAIN p \ IgnoredFields
        with(v) == [f \in kept \cup DOMAIN v |-> IF f \in kept THEN p[f] ELSE v[f]]
    IN  {with(v) : v \in [IgnoredFields -> IgnoredValues]}
        \cup {with(v) : v \in [IgnoredFields \ {"tenant_name"} -> IgnoredValues]}

(***************************************************************************)
(* C15.  The payload fields event, recording_id, host_user_id,             *)
(* host_user_name and tenant_name are accepted and ignored: whatever a     *)
(* step of the handler does for a call, it would do exactly the same, from *)
(* the same datastore state, had the payload differed in these fields      *)
(* only: the same response and the same Recording and Session rows.        *)
(***************************************************************************)
C15_IgnoredFieldsHaveNoEffect ==
    [][\A c \in Calls :
         /\ CreateRecording(c)
            => \A q \in IgnoredVariants(payload[c]) : CreateRecordingOf(c, q)
         /\ UpdateSession(c)
            => \A q \in IgnoredVariants(payload[c]) : UpdateSessionOf(c, q)]_vars

\* Two deliveries whose payloads differ in every ignored field and in nothing
\* else were both answered success, and their rows differ in nothing but id
\* and updated_at.
C15_Witness ==
    \E c1, c2 \in Calls :
        /\ payload[c1] = BasePayload /\ payload[c2] = OtherSenderPayload
        /\ Succeeded(c1) /\ Succeeded(c2)
        /\ \E r1 \in RowOf(c1), r2 \in RowOf(c2) :
             \A f \in DOMAIN r1 \ {"id", "updated_at"} : r1[f] = r2[f]
        /\ Session[1].recording_url = BasePayload.recording_url

(***************************************************************************)
(* C16.  The ids in the in-process array are unique: after any sequence of *)
(* create, update and remove calls no two entries of the array hold the    *)
(* same id, so findOne, update and remove address the one row create       *)
(* returned.                                                               *)
(***************************************************************************)
C16_ArrayIdsUnique ==
    \A i, j \in 1..Len(recordings) :
        i # j => recordings[i].id # recordings[j].id

\* What C16 would give: update and remove act on the only row with the id.
C16_AddressesSingleRow ==
    [][\A id \in PathIds :
         (\E dto \in Dtos : Update(id, dto)) \/ Remove(id)
         => \A i \in 1..Len(recordings') : recordings'[i].id = id
              => i = FindIndex(recordings', id)]_vars

=============================================================================
